---- MODULE Spec2Model ----
(***************************************************************************)
(* The Royal Game of Ur (src/ur.cpp): the board state of the two sides,   *)
(* the move generator getOptions, the move applier apply, the validity    *)
(* check _verifySides and the game loop playOneGame / playOneRoll.        *)
(*                                                                         *)
(* A std::bitset<16> is modelled as the set of its set bit indexes, a     *)
(* subset of 0..15; the bit operations are the corresponding operations   *)
(* on such sets.  The uint16_t pile counter keeps its width.              *)
(***************************************************************************)
EXTENDS Integers, FiniteSets, Sequences, TLC

VARIABLES left, right, current, rolls, finished, last, call, result

vars == <<left, right, current, rolls, finished, last, call, result>>

----------------------------------------------------------------------------
(* Bounds of the exploration.                                              *)

\* Rolls played in a game in which both agents and both dice are arbitrary.
MaxRolls == 8

\* Rolls played in a game of the ClosestAgent against zero rolls.
MaxGameRolls == 42

\* Pieces the mover has on the board in the arguments of a function call.
MaxOnBoard == 2

\* Pieces in a pile in the arguments of a function call.
MaxPile == 1

----------------------------------------------------------------------------
(* Constants and types of the program.                                     *)

TILES == 7

INVALID == 15

PositionRange == 0..15

Bits16 == 0..15

Wrap16(n) == (n + 65536) % 65536

START == [remaining |-> TILES, occupied |-> {0}]

COMPLETE == [remaining |-> 0, occupied |-> {}]

----------------------------------------------------------------------------
(* std::bitset<16> operations.                                             *)

\* b >> n : bit i of the result is bit i + n of b.
ShiftRight(b, n) == {i - n : i \in {j \in b : j >= n}}

\* ~b
Flip(b) == Bits16 \ b

----------------------------------------------------------------------------
(* getOptions: the start positions from which `steps` may be moved.        *)

\* Every position starts as valid (0x7FFF).
allPositions == 0..14

\* Faulty variant of landsOnOwn: the occupancy is shifted the wrong way.
landsOnOwnShiftedLeft(self, steps) ==
    Flip(self.occupied \cap {i + steps : i \in {j \in self.occupied : j + steps <= 15}})

\* 2. You don't land on your own piece.
landsOnOwn(self, steps) ==
    Flip(self.occupied \cap ShiftRight(self.occupied, steps))

\* 3. The central rosette (bit 8) when already occupied.
rosetteTaken(other) == Flip({8} \cap other.occupied)

\* Faulty variant of notTooFar: the mask is 0x7FFF >> steps, so that a move
\* onto position 15 counts as too far.
notTooFarBefore15(steps) == ShiftRight(0..14, steps)

\* Faulty variant of notTooFar: the mask is shifted by one step too few.
notTooFarPlusOne(steps) == ShiftRight(Bits16, steps - 1)

\* 4. You don't land too far off the board (0xFFFF >> steps).
notTooFar(steps) == ShiftRight(Bits16, steps)

getOptions(self, other, steps) ==
    LET options0 == allPositions
        options1 == options0 \cap self.occupied
        options2 == options1 \cap landsOnOwn(self, steps)
        options3 == options2 \cap rosetteTaken(other)
        options4 == options3 \cap notTooFar(steps)
    IN  options4

----------------------------------------------------------------------------
(* apply: move the piece at `start` by `steps`.                            *)

\* Faulty variant of pickUp: bit 0 is kept when the pile empties.
pickUpKeepsFlag(self, start) ==
    IF start = 0
    THEN [self EXCEPT !.remaining = Wrap16(@ - 1)]
    ELSE [self EXCEPT !.occupied = @ \ {start}]

\* Pick up the piece from the start of the move.
pickUp(self, start) ==
    IF start = 0
    THEN LET r == Wrap16(self.remaining - 1)
         IN  [remaining |-> r,
              occupied  |-> IF r = 0 THEN self.occupied \ {0} ELSE self.occupied]
    ELSE [self EXCEPT !.occupied = @ \ {start}]

\* Faulty variant of place: a piece that reaches position 15 is placed too.
placeAt15(self, end) ==
    IF end <= 15 THEN [self EXCEPT !.occupied = @ \cup {end}] ELSE self

\* Faulty variant of place: a piece that reaches position 14 is not placed.
placeBefore14(self, end) ==
    IF end < 14 THEN [self EXCEPT !.occupied = @ \cup {end}] ELSE self

\* Place it at the end of the move.
place(self, end) ==
    IF end < 15 THEN [self EXCEPT !.occupied = @ \cup {end}] ELSE self

\* Faulty variant of lands: the cell is not required to be in the middle.
landsAnywhere(other, end) == end <= 15 /\ end \in other.occupied

\* Faulty variant of lands: the middle starts after position 5.
landsAfter5(other, end) == 5 < end /\ end <= 12 /\ end \in other.occupied

\* The opponent's piece is landed on in the middle.
lands(other, end) == 5 <= end /\ end <= 12 /\ end \in other.occupied

\* Faulty variant of capture: the piece does not return to the pile.
captureKeepsCount(other, end) ==
    IF lands(other, end)
    THEN [remaining |-> other.remaining,
          occupied  |-> (other.occupied \ {end}) \cup {0}]
    ELSE other

\* Faulty variant of capture: the pile flag of the opponent is not set.
captureKeepsFlag(other, end) ==
    IF lands(other, end)
    THEN [remaining |-> Wrap16(other.remaining + 1),
          occupied  |-> other.occupied \ {end}]
    ELSE other

\* Reset the opponent's piece.
capture(other, end) ==
    IF lands(other, end)
    THEN [remaining |-> Wrap16(other.remaining + 1),
          occupied  |-> (other.occupied \ {end}) \cup {0}]
    ELSE other

\* Faulty variant of goAgain: the last rosette is forgotten.
goAgainNot14(end) == end = 4 \/ end = 8

\* Go again if the move ended on a rosette.
goAgain(end) == end = 4 \/ end = 8 \/ end = 14

apply(self, other, start, steps) ==
    LET end == start + steps
    IN  [self  |-> place(pickUp(self, start), end),
         other |-> capture(other, end),
         again |-> goAgain(end)]

----------------------------------------------------------------------------
(* _verifySides: no collisions in the middle (mask 0x1FE0, bits 5..12).    *)

\* Faulty variant of verifySides: the mask is 0x0FE0, bits 5..11.
verifySidesTo11(self, other) ==
    (self.occupied \cap other.occupied \cap (5..11)) = {}

verifySides(self, other) ==
    (self.occupied \cap other.occupied \cap (5..12)) = {}

----------------------------------------------------------------------------
(* playOneGame: one iteration of the loop, the call of playOneRoll         *)
(* included, is one action; the actions are the branches of playOneRoll.   *)

Self == IF current THEN left ELSE right

Other == IF current THEN right ELSE left

Mover == IF current THEN "left" ELSE "right"

\* Faulty variant of Running: the loop goes on until both sides are COMPLETE.
RunningEither == left # COMPLETE \/ right # COMPLETE

\* The condition of the loop of playOneGame.
Running == left # COMPLETE /\ right # COMPLETE

NoMove == [op |-> "none", start |-> INVALID, steps |-> 0, captured |-> FALSE]

NoCall ==
    [fn |-> "none", self |-> START, other |-> START, steps |-> 0,
     start |-> INVALID, options |-> {}, ret |-> FALSE,
     selfOut |-> START, otherOut |-> START]

Init ==
    /\ left = START
    /\ right = START
    /\ current = TRUE
    /\ rolls = 0
    /\ finished = [left |-> 0, right |-> 0]
    /\ last = NoMove
    /\ call = NoCall
    /\ result = {}

\* Faulty variant of Turn: the turn is passed by `current ^ again`.
TurnXor(self, other, again, move) ==
    /\ left' = IF current THEN self ELSE other
    /\ right' = IF current THEN other ELSE self
    /\ rolls' = rolls + 1
    /\ current' = (current # again)
    /\ finished' = IF move.op = "apply" /\ move.start + move.steps = 15
                   THEN [finished EXCEPT ![Mover] = @ + 1]
                   ELSE finished
    /\ last' = move
    /\ UNCHANGED <<call, result>>

\* The rest of the loop body once playOneRoll has returned `again`, having
\* left the sides as `self` and `other`: count the roll and pass the turn.
\* `move` records the move the roll applied, if any.
Turn(self, other, again, move) ==
    /\ left' = IF current THEN self ELSE other
    /\ right' = IF current THEN other ELSE self
    /\ rolls' = rolls + 1
    /\ current' = (current <=> again)
    /\ finished' = IF move.op = "apply" /\ move.start + move.steps = 15
                   THEN [finished EXCEPT ![Mover] = @ + 1]
                   ELSE finished
    /\ last' = move
    /\ UNCHANGED <<call, result>>

\* The answers of an agent that playOneRoll takes as an invalid move.
InvalidStarts(options) ==
    {start \in PositionRange : start = INVALID \/ start \notin options}

\* The roll was a zero: the agent is not asked.
RollZero ==
    /\ Running /\ rolls < MaxRolls
    /\ Turn(Self, Other, FALSE, [NoMove EXCEPT !.op = "zero"])

\* There are no valid moves for the roll.
NoLegalMoves ==
    /\ Running /\ rolls < MaxRolls
    /\ \E steps \in 1..4 :
          /\ getOptions(Self, Other, steps) = {}
          /\ Turn(Self, Other, FALSE, [NoMove EXCEPT !.op = "nomoves"])

\* Faulty variant of InvalidMove: the invalid move is applied all the same.
InvalidMoveFallsThrough ==
    /\ Running /\ rolls < MaxRolls
    /\ \E steps \in 1..4 :
          LET options == getOptions(Self, Other, steps)
          IN  /\ options # {}
              /\ \E start \in InvalidStarts(options) \ {INVALID} :
                    LET r == apply(Self, Other, start, steps)
                    IN  Turn(r.self, r.other, FALSE,
                             [NoMove EXCEPT !.op = "invalid"])

\* The agent submits an invalid move, which passes the turn.
InvalidMove ==
    /\ Running /\ rolls < MaxRolls
    /\ \E steps \in 1..4 :
          LET options == getOptions(Self, Other, steps)
          IN  /\ options # {}
              /\ InvalidStarts(options) # {}
              /\ Turn(Self, Other, FALSE, [NoMove EXCEPT !.op = "invalid"])

\* The agent submits a valid move, which is applied.
ApplyMove ==
    /\ Running /\ rolls < MaxRolls
    /\ \E steps \in 1..4 :
          LET options == getOptions(Self, Other, steps)
          IN  /\ options # {}
              /\ \E start \in PositionRange \ InvalidStarts(options) :
                    LET r == apply(Self, Other, start, steps)
                    IN  Turn(r.self, r.other, r.again,
                             [op |-> "apply", start |-> start, steps |-> steps,
                              captured |-> lands(Other, start + steps)])

Next == RollZero \/ NoLegalMoves \/ InvalidMove \/ ApplyMove

Spec == Init /\ [][Next]_vars

----------------------------------------------------------------------------
(* The built-in agents.                                                    *)

RECURSIVE FarthestFrom(_, _)
\* The loop of FarthestAgent::getMove from index i on.
FarthestFrom(options, i) ==
    IF i < 15
    THEN IF i \in options THEN i ELSE FarthestFrom(options, i + 1)
    ELSE INVALID

\* FarthestAgent::getMove: the first set bit counting up from 0.
FarthestAgent(options) == FarthestFrom(options, 0)

RECURSIVE ClosestFrom(_, _)
\* The loop of ClosestAgent::getMove from index i on.
ClosestFrom(options, i) ==
    IF i >= 0
    THEN IF i \in options THEN i ELSE ClosestFrom(options, i - 1)
    ELSE INVALID

\* Faulty variant of ClosestAgent: the loop starts at 13.
ClosestAgentFrom13(options) == ClosestFrom(options, 13)

\* ClosestAgent::getMove: the first set bit counting down from 14.
ClosestAgent(options) == ClosestFrom(options, 14)

----------------------------------------------------------------------------
(* A whole game of ClosestAgents in which only one player gets to move: a  *)
(* player rolls more than zero only while the opponent has every piece in  *)
(* the pile, so whoever moves first plays alone to the end.  The agent     *)
(* never submits an invalid move, so that branch of playOneRoll is not     *)
(* part of this game.                                                      *)

SoloDice == IF Other = START THEN 1..4 ELSE {}

SoloZero ==
    /\ Running /\ rolls < MaxGameRolls
    /\ Turn(Self, Other, FALSE, [NoMove EXCEPT !.op = "zero"])

SoloNoLegalMoves ==
    /\ Running /\ rolls < MaxGameRolls
    /\ \E steps \in SoloDice :
          /\ getOptions(Self, Other, steps) = {}
          /\ Turn(Self, Other, FALSE, [NoMove EXCEPT !.op = "nomoves"])

SoloMove ==
    /\ Running /\ rolls < MaxGameRolls
    /\ \E steps \in SoloDice :
          LET options == getOptions(Self, Other, steps)
              start   == ClosestAgent(options)
          IN  /\ options # {}
              /\ start \notin InvalidStarts(options)
              /\ LET r == apply(Self, Other, start, steps)
                 IN  Turn(r.self, r.other, r.again,
                          [op |-> "apply", start |-> start, steps |-> steps,
                           captured |-> lands(Other, start + steps)])

\* The loop of playOneGame has ended: return whether the first player won.
GameOver ==
    /\ ~Running
    /\ result = {}
    /\ result' = {left = COMPLETE}
    /\ UNCHANGED <<left, right, current, rolls, finished, last, call>>

NextSolo == SoloZero \/ SoloNoLegalMoves \/ SoloMove \/ GameOver

SpecSolo == Init /\ [][NextSolo]_vars

----------------------------------------------------------------------------
(* The functions on their own: getOptions, apply and _verifySides called   *)
(* with arguments drawn from the sides whose pile flag is in sync.  Of the *)
(* opponent the functions read bit 8, bit `end` and the intersection with  *)
(* the mover's cells, so the opponent has at most one piece on the board.  *)

Board(k) == {S \in SUBSET (1..14) : Cardinality(S) <= k}

SideOf(r, S) == [remaining |-> r, occupied |-> IF r > 0 THEN S \cup {0} ELSE S]

MoverSides == {SideOf(r, S) : r \in 0..MaxPile, S \in Board(MaxOnBoard)}

OpponentSides ==
    {SideOf(r, S) : r \in 0..MaxPile, S \in {{}} \cup {{p} : p \in 1..14}}

InitFn ==
    /\ left = START
    /\ right = START
    /\ current = TRUE
    /\ rolls = 0
    /\ finished = [left |-> 0, right |-> 0]
    /\ last = NoMove
    /\ result = {}
    /\ \E self \in MoverSides, other \in OpponentSides, steps \in 1..4 :
          call = [NoCall EXCEPT !.fn = "args", !.self = self, !.other = other,
                                !.steps = steps, !.selfOut = self,
                                !.otherOut = other]

CallGetOptions ==
    /\ call.fn = "args"
    /\ call' = [call EXCEPT !.fn = "getOptions",
                            !.options = getOptions(call.self, call.other, call.steps)]
    /\ UNCHANGED <<left, right, current, rolls, finished, last, result>>

\* Pre: the proposed move is valid.
CallApply ==
    /\ call.fn = "getOptions"
    /\ \E start \in call.options :
          LET r == apply(call.self, call.other, start, call.steps)
          IN  call' = [call EXCEPT !.fn = "apply", !.start = start,
                                   !.selfOut = r.self, !.otherOut = r.other,
                                   !.ret = r.again]
    /\ UNCHANGED <<left, right, current, rolls, finished, last, result>>

CallVerifySides ==
    /\ call.fn = "args"
    /\ call' = [call EXCEPT !.fn = "_verifySides",
                            !.ret = verifySides(call.self, call.other)]
    /\ UNCHANGED <<left, right, current, rolls, finished, last, result>>

\* The agents are asked for a move when there are valid moves.
CallFarthestAgent ==
    /\ call.fn = "getOptions"
    /\ call.options # {}
    /\ call' = [call EXCEPT !.fn = "FarthestAgent",
                            !.start = FarthestAgent(call.options)]
    /\ UNCHANGED <<left, right, current, rolls, finished, last, result>>

CallClosestAgent ==
    /\ call.fn = "getOptions"
    /\ call.options # {}
    /\ call' = [call EXCEPT !.fn = "ClosestAgent",
                            !.start = ClosestAgent(call.options)]
    /\ UNCHANGED <<left, right, current, rolls, finished, last, result>>

NextFn ==
    \/ CallGetOptions
    \/ CallApply
    \/ CallVerifySides
    \/ CallFarthestAgent
    \/ CallClosestAgent

SpecFn == InitFn /\ [][NextFn]_vars

----------------------------------------------------------------------------
(* Properties.                                                             *)

SideNames == {"left", "right"}

SideAt(name) == IF name = "left" THEN left ELSE right

OnBoard(side) == side.occupied \cap (1..14)

\* The end of the move a call of apply has made.
CallEnd == call.start + call.steps

\* The end of the move the latest roll applied.
LastEnd == last.start + last.steps

\* C1: rosette sanctuary in the move generator: when other occupies position
\* 8, getOptions(self, other, steps) contains no start p with p + steps = 8.
C1_RosetteSanctuary ==
    (call.fn = "getOptions" /\ 8 \in call.other.occupied)
        => \A p \in call.options : p + call.steps # 8

\* C2: capture immunity on the central rosette over whole games: no applied
\* move captures an opponent piece standing on position 8.
C2_NoCaptureOnRosette ==
    (last.op = "apply" /\ last.captured) => LastEnd # 8

\* C3: conservation of pieces: for each side, remaining plus the pieces on
\* positions 1..14 plus the pieces borne off is TILES.
C3_Conservation ==
    \A n \in SideNames :
        SideAt(n).remaining + Cardinality(OnBoard(SideAt(n))) + finished[n] = TILES

\* The latest move has borne a piece off, while pieces of both sides are on
\* the board and in the piles.
C3_Witness ==
    /\ \E n \in SideNames : finished[n] >= 1
    /\ last.op = "apply" /\ LastEnd = 15
    /\ OnBoard(left) # {} /\ OnBoard(right) # {}
    /\ left.remaining > 0 /\ right.remaining > 0

\* C4: cross-side exclusion: no position of the shared lane 5..12 is set in
\* the occupied sets of both sides.
C4_CrossSideExclusion ==
    \A p \in 5..12 : ~(p \in left.occupied /\ p \in right.occupied)

\* The latest move ended on a shared cell the opponent held, and both sides
\* still have pieces in the shared lane.
C4_Witness ==
    /\ last.op = "apply" /\ last.captured /\ LastEnd \in 5..12
    /\ left.occupied \cap (5..12) # {}
    /\ right.occupied \cap (5..12) # {}

\* C5: capture correctness: when a legal move ends on a cell of 5..12 other
\* than 8 that the opponent occupies, the opponent's remaining increases by
\* exactly 1, bit end of its occupied is cleared, bit 0 becomes set and no
\* other bit changes.
C5_CaptureCorrect ==
    (/\ call.fn = "apply"
     /\ CallEnd \in (5..12) \ {8}
     /\ CallEnd \in call.other.occupied)
        => /\ call.otherOut.remaining = call.other.remaining + 1
           /\ CallEnd \notin call.otherOut.occupied
           /\ 0 \in call.otherOut.occupied
           /\ \A b \in Bits16 \ {0, CallEnd} :
                 b \in call.otherOut.occupied <=> b \in call.other.occupied

\* A capture off the rosette of the piece of an opponent whose pile was empty.
C5_Witness ==
    /\ call.fn = "apply"
    /\ CallEnd \in (5..12) \ {8}
    /\ CallEnd \in call.other.occupied
    /\ call.other.remaining = 0
    /\ 0 \notin call.other.occupied

\* C6: extra-turn signal: apply returns true exactly when end = start + steps
\* is one of 4, 8, 14.
C6_ExtraTurn ==
    call.fn = "apply" => (call.ret <=> CallEnd \in {4, 8, 14})

\* Both answers occur: this one is a move onto the last rosette.
C6_Witness == call.fn = "apply" /\ call.ret /\ CallEnd = 14

\* C7: no self-collision: no start p of getOptions(self, other, steps) has
\* p + steps set in self.occupied, so an applied move does not end on a cell
\* the mover already held.
C7_NoSelfCollision ==
    /\ call.fn = "getOptions"
          => \A p \in call.options : p + call.steps \notin call.self.occupied
    /\ call.fn = "apply" => CallEnd \notin call.self.occupied

\* A piece on the board is blocked by another piece of the mover, while some
\* other start is valid.
C7_Witness ==
    /\ call.fn = "getOptions"
    /\ call.options # {}
    /\ \E p \in 1..14 :
          /\ p \in call.self.occupied
          /\ p + call.steps \in call.self.occupied
          /\ p \notin call.options

\* C8: completion only by bearing off: a side equals COMPLETE only in states
\* where exactly TILES of its applied moves ended at position 15.
C8_CompleteOnlyByBearingOff ==
    \A n \in SideNames : SideAt(n) = COMPLETE => finished[n] = TILES

\* The first player has completed the game.
C8_Witness == left = COMPLETE /\ finished["left"] = TILES /\ LastEnd = 15

C10_IgnoresRosette ==
    call.fn = "_verifySides"
        => (call.ret <=> \A p \in (5..12) \ {8} :
                            ~(p \in call.self.occupied /\ p \in call.other.occupied))

\* C10 as amended: _verifySides returns true exactly when no cell of 5..12,
\* the rosette cell 8 included, is occupied by both sides.
C10_NoSharedCell ==
    call.fn = "_verifySides"
        => (call.ret <=> \A p \in 5..12 :
                            ~(p \in call.self.occupied /\ p \in call.other.occupied))

\* Both sides occupy position 8 and no other common cell: the answer is false.
C10_Witness ==
    /\ call.fn = "_verifySides"
    /\ call.self.occupied \cap call.other.occupied \cap (1..14) = {8}
    /\ ~call.ret

\* The pile flag of a side is in sync with its pile.
FlagInSync(side) == (0 \in side.occupied) <=> (side.remaining > 0)

\* The four conditions under which position p is a legal start.
LegalStart(self, other, steps, p) ==
    /\ p \in self.occupied \/ (p = 0 /\ self.remaining > 0)
    /\ p + steps \notin self.occupied
    /\ ~(p + steps = 8 /\ 8 \in other.occupied)
    /\ p + steps <= 15

\* C11: move generator completeness: for sides that satisfy the pile-flag
\* and cross-side invariants, every position p of 0..14 that meets the four
\* legality conditions is contained in getOptions(self, other, steps).
C11_Completeness ==
    (/\ call.fn = "getOptions"
     /\ FlagInSync(call.self) /\ FlagInSync(call.other)
     /\ \A c \in 5..12 : ~(c \in call.self.occupied /\ c \in call.other.occupied))
        => \A p \in 0..14 :
              LegalStart(call.self, call.other, call.steps, p) => p \in call.options

\* The opponent holds the rosette, and the legal starts include the pile and
\* a piece that is borne off.
C11_Witness ==
    /\ call.fn = "getOptions"
    /\ 8 \in call.other.occupied /\ 8 \notin call.self.occupied
    /\ LegalStart(call.self, call.other, call.steps, 0)
    /\ \E p \in 1..14 :
          /\ p + call.steps = 15
          /\ LegalStart(call.self, call.other, call.steps, p)

\* C15: mover-side effect of apply on a legal move: remaining decreases by
\* exactly 1 if start = 0 and is unchanged otherwise; the set of positions
\* 1..14 becomes the previous set minus start plus end when end < 15, and
\* minus start with no bit added (bit 15 never set) when end = 15.
C15_MoverEffect ==
    call.fn = "apply"
        => /\ call.selfOut.remaining =
                 IF call.start = 0 THEN call.self.remaining - 1
                                   ELSE call.self.remaining
           /\ OnBoard(call.selfOut) =
                 IF CallEnd < 15
                 THEN (OnBoard(call.self) \ {call.start}) \cup {CallEnd}
                 ELSE OnBoard(call.self) \ {call.start}
           /\ 15 \notin call.selfOut.occupied

\* A piece is borne off while another piece and the pile stay as they were.
C15_Witness ==
    /\ call.fn = "apply" /\ CallEnd = 15
    /\ call.self.remaining > 0
    /\ Cardinality(OnBoard(call.self)) = 2

\* C16: no overshoot: getOptions contains no start p with p + steps > 15,
\* and the overshoot rule does not exclude a start p that the mover occupies
\* with p + steps = 15.
C16_NoOvershoot ==
    call.fn = "getOptions"
        => /\ \A p \in call.options : p + call.steps <= 15
           /\ \A p \in call.self.occupied \cap (0..14) :
                 p + call.steps = 15 => p \in call.options

\* One piece of the mover would overshoot and another reaches 15 exactly.
C16_Witness ==
    /\ call.fn = "getOptions"
    /\ \E p \in call.self.occupied : p + call.steps > 15
    /\ \E p \in call.options : p + call.steps = 15

\* C17: opponent frame condition: when a legal move ends on a cell outside
\* 5..12 or on a shared cell the opponent does not occupy, the opponent's
\* remaining and occupied are unchanged, even if the opponent has a piece at
\* the same index of its own private lane.
C17_OpponentFrame ==
    (/\ call.fn = "apply"
     /\ CallEnd \notin 5..12 \/ CallEnd \notin call.other.occupied)
        => call.otherOut = call.other

\* The move ends on a private cell whose index the opponent occupies too.
C17_Witness ==
    /\ call.fn = "apply"
    /\ CallEnd \in {1, 2, 3, 4, 13, 14}
    /\ CallEnd \in call.other.occupied

\* C20: the built-in agents always choose legally: when the options are not
\* empty, FarthestAgent returns the smallest position in them and
\* ClosestAgent the largest, so neither answer is INVALID or outside the
\* options, and playOneRoll does not take it as an invalid move.
C20_AgentsChooseLegally ==
    /\ call.fn = "FarthestAgent"
          => /\ call.start \in call.options
             /\ \A q \in call.options : call.start <= q
    /\ call.fn = "ClosestAgent"
          => /\ call.start \in call.options
             /\ \A q \in call.options : q <= call.start
    /\ call.fn \in {"FarthestAgent", "ClosestAgent"}
          => call.start \notin InvalidStarts(call.options)

\* The ClosestAgent answers 14 where the FarthestAgent would answer the pile.
C20_Witness ==
    /\ call.fn = "ClosestAgent"
    /\ call.start = 14
    /\ 0 \in call.options
    /\ Cardinality(call.options) >= 2

\* C12: a forfeited roll (a roll of 0, no valid moves, or an invalid answer of
\* the agent) does not apply a move and leaves the pile and the board of both
\* sides as they were.
C12_ForfeitFrame ==
    [][last'.op \in {"zero", "nomoves", "invalid"}
          => /\ left' = left
             /\ right' = right
             /\ finished' = finished]_vars

\* A non-zero roll was forfeited for lack of valid moves, pieces on the board.
C12_Witness ==
    /\ last.op = "nomoves"
    /\ OnBoard(left) # {} \/ OnBoard(right) # {}

C14_TurnOrder ==
    [][(current' = current)
          <=> (last'.op = "apply" /\ (last'.start + last'.steps) \in {4, 8, 14})]_vars

\* The second player has moved onto the central rosette and is to move again.
C14_Witness ==
    /\ last.op = "apply"
    /\ LastEnd = 8
    /\ 8 \in right.occupied
    /\ ~current

C19_UniqueWinner ==
    /\ [](~(left = COMPLETE /\ right = COMPLETE))
    /\ [](\A r \in result :
             /\ left = COMPLETE \/ right = COMPLETE
             /\ r <=> (left = COMPLETE /\ right # COMPLETE))
    /\ [][(left = COMPLETE \/ right = COMPLETE)
             => (left' = left /\ right' = right /\ rolls' = rolls)]_vars

\* The second player has finished and playOneGame has returned false.
C19_Witness ==
    /\ result = {FALSE}
    /\ right = COMPLETE
    /\ left # COMPLETE
    /\ finished["right"] = TILES

----------------------------------------------------------------------------
TypeOK ==
    /\ left.remaining \in 0..65535 /\ left.occupied \subseteq Bits16
    /\ right.remaining \in 0..65535 /\ right.occupied \subseteq Bits16
    /\ current \in BOOLEAN
    /\ rolls \in 0..MaxRolls
    /\ result \subseteq BOOLEAN

====
